---------------------------- MODULE Spec2Model ----------------------------
(***************************************************************************)
(* Model of programs/graph-arbitrage/src/lib.rs: the Anchor program        *)
(* graph_arbitrage with its two instructions, execute_arbitrage_route and  *)
(* emergency_cancel, and the swap helpers they call.                       *)
(*                                                                         *)
(* Two balances are kept apart, as the program keeps them apart:           *)
(*   ledger  the token balance of user_token_account held by the token     *)
(*           program (the externally durable state a CPI changes);         *)
(*   amount  the field user_token_account.amount of the                    *)
(*           Account<'info, TokenAccount> in ctx.accounts, the copy of the *)
(*           account deserialized when the instruction's accounts are      *)
(*           loaded.  The program never calls reload(), so every read of   *)
(*           ctx.accounts.user_token_account.amount returns this copy.     *)
(*                                                                         *)
(* An instruction that returns Err or panics is reverted by the runtime    *)
(* ("If any step fails, entire transaction reverts", lib.rs:55): the       *)
(* ledger goes back to its value at entry.                                 *)
(*                                                                         *)
(* u64 is modelled as an unsigned word of Word = 2^30 values, so that the  *)
(* products of the program stay inside TLC's integers; the program's       *)
(* scales (1000, 10000, 10000000) are kept as they are.  What an overflow  *)
(* does depends on the build profile (overflow-checks): it panics or it    *)
(* wraps; overflow_checks is that choice.                                  *)
(***************************************************************************)
EXTENDS Integers, Sequences, FiniteSets, TLC

\* ---------------------------------------------------------------- constants
\* require!(route.len() >= 3, ...)
MinRouteLen == 3
\* require!(route.len() <= 6, ...)
MaxRouteLen == 6
\* basis points: (profit * 10000) / start_balance, (10000 - max_slippage_bps)
BpsScale == 10000
\* the divisor of min_output: rate scale 1000 times bps scale 10000
MinOutputDivisor == 10000000
\* expected_rate is the rate * 1000
RateScale == 1000

\* ------------------------------------------------------------------- bounds
\* min_profit_bps is drawn from 0..MaxMinProfitBps
MaxMinProfitBps == 2
\* a max_slippage_bps below 10000 and one above it (both are u16 values)
TypicalSlippageBps == 50
ExcessSlippageBps == 10001
\* an expected_rate above par (1.1x)
HighRate == 1100
\* token balances: one whose products stay in the word, one whose do not
SmallBalance == 50
LargeBalance == 120
\* route lengths are drawn from 0..MaxRouteLen + ExtraLen
ExtraLen == 1

Word == 2^30
HalfWord == 2^15
U16 == 65536
U8 == 256

DexType == {"Jupiter", "Raydium", "Orca"}
Rates == {RateScale, HighRate}
SwapStep == [dex : DexType, expected_rate : Rates]
Balances == {0, SmallBalance, LargeBalance}
RouteLens == 0..(MaxRouteLen + ExtraLen)
MinProfits == 0..MaxMinProfitBps
Slippages == {TypicalSlippageBps, ExcessSlippageBps}
\* what the external program does in a CPI: it fails, or it returns having
\* left the token account with some balance
CpiOutcomes == [ok : BOOLEAN, balance : Balances]
NoCpi == [ok |-> TRUE, balance |-> 0]

NoStep == [dex |-> "None", expected_rate |-> 0]
NoSwapResult == [success |-> FALSE, output_amount |-> 0, slippage_bps |-> 0]
NoCall == [adapter |-> "None", dex |-> "None", expected_rate |-> 0,
           input_amount |-> 0, min_output |-> 0, kind |-> "None",
           pre_ledger |-> 0, post_ledger |-> 0]

VARIABLES
    overflow_checks,   \* build profile: arithmetic overflow panics (TRUE) or wraps
    ledger,            \* token balance of user_token_account on the ledger
    entry_ledger,      \* the ledger when the running instruction was entered
    amount,            \* ctx.accounts.user_token_account.amount (deserialized copy)
    op,                \* the instruction last entered
    pc,                \* position in it
    route_len,         \* route.len()
    min_profit_bps,
    max_slippage_bps,
    start_balance,
    current_amount,
    step_index,
    step,              \* the element of route the loop is at
    swap_result,       \* the last SwapResult
    final_balance,
    profit,
    profit_bps,
    result,            \* what the instruction returned
    events,            \* ArbitrageExecuted events emitted by the instruction
    calls,             \* number of adapters the instruction has invoked
    last_call,         \* the last of them: its arguments, how it ended, the ledger
                       \* before and after it
    balance_reads,     \* reads of user_token_account.amount by execute_arbitrage_route
    venues,            \* step.dex of the steps of route the loop has come to
    out_of_range       \* some u64 operation of the instruction left the u64 range

inputs == <<route_len, min_profit_bps, max_slippage_bps>>
locals == <<start_balance, current_amount, step_index, step, swap_result,
            final_balance, profit, profit_bps>>
vars == <<overflow_checks, ledger, entry_ledger, amount, op, pc, inputs, locals,
          result, events, calls, last_call, balance_reads, venues,
          out_of_range>>

\* --------------------------------------------------------------- arithmetic
\* a * b does not fit the word
MulOverflows(a, b) == b # 0 /\ a > (Word - 1) \div b

\* (a * b) mod Word, for a, b < Word, by half words
WrappingMul(a, b) ==
    IF ~MulOverflows(a, b) THEN a * b
    ELSE LET al == a % HalfWord
             ah == a \div HalfWord
             bl == b % HalfWord
             bh == b \div HalfWord
         IN ((al * bl) + ((((ah * bl) % HalfWord) + ((al * bh) % HalfWord)) % HalfWord) * HalfWord) % Word

\* a * b on u64: the wrapped value and whether it overflowed
U64Mul(a, b) == [overflow |-> MulOverflows(a, b), value |-> WrappingMul(a, b)]

\* a - b on u64
U64Sub(a, b) == [overflow |-> b > a, value |-> (a - b + Word) % Word]

\* u64::saturating_sub
SaturatingSub(a, b) == IF a > b THEN a - b ELSE 0

\* ------------------------------------------------------------ pure helpers
\* lib.rs:194 calculate_slippage, on the (possibly wrapped) expected amount
calculate_slippage(expected, actual) ==
    IF expected = 0 THEN [overflow |-> FALSE, value |-> 0]
    ELSE LET diff == SaturatingSub(expected, actual)
             m == U64Mul(diff, BpsScale)
         IN [overflow |-> m.overflow, value |-> (m.value \div expected) % U16]

\* lib.rs:102 the minimum acceptable output of one step:
\* (input_amount * expected_rate * (10000 - max_slippage_bps)) / 10000000
MinOutput(input_amount, expected_rate, slippage_bps) ==
    LET t1 == U64Mul(input_amount, expected_rate)
        d == U64Sub(BpsScale, slippage_bps)
        t2 == U64Mul(t1.value, d.value)
    IN [overflow |-> t1.overflow \/ d.overflow \/ t2.overflow,
        value |-> t2.value \div MinOutputDivisor]

\* lib.rs:146 success: output_amount >= min_output
MeetsMinOutput(output_amount, min_out) == output_amount >= min_out

\* what one adapter call comes to: how it ended ("Ok", "Panic", "ProgramError"),
\* the SwapResult of an "Ok", the ledger balance it leaves, and whether one of
\* its u64 operations overflowed
Outcome(kind, success, output_amount, slippage, ledger_after, overflow) ==
    [kind |-> kind,
     swap_result |-> [success |-> success, output_amount |-> output_amount,
                      slippage_bps |-> slippage],
     ledger_after |-> ledger_after,
     overflow |-> overflow]

\* lib.rs:112 execute_jupiter_swap: the CPI, then the balance is read from
\* ctx.accounts (amt, the deserialized copy) and compared with min_output
execute_jupiter_swap(s, input_amount, min_out, amt, led, oc, cpi) ==
    IF ~cpi.ok THEN Outcome("ProgramError", FALSE, 0, 0, led, FALSE)
    ELSE LET new_balance == amt
             output_amount == new_balance
             e == U64Mul(input_amount, s.expected_rate)
             sl == calculate_slippage(e.value \div RateScale, output_amount)
         IN IF oc /\ (e.overflow \/ sl.overflow)
            THEN Outcome("Panic", FALSE, 0, 0, cpi.balance, TRUE)
            ELSE Outcome("Ok", MeetsMinOutput(output_amount, min_out),
                         output_amount, sl.value, cpi.balance,
                         e.overflow \/ sl.overflow)

\* lib.rs:153 execute_raydium_swap
execute_raydium_swap(s, input_amount, min_out, led, oc) ==
    LET e == U64Mul(input_amount, s.expected_rate)
    IN IF oc /\ e.overflow THEN Outcome("Panic", FALSE, 0, 0, led, TRUE)
       ELSE Outcome("Ok", TRUE, e.value \div RateScale, 0, led, e.overflow)

\* lib.rs:169 execute_orca_swap
execute_orca_swap(s, input_amount, min_out, led, oc) ==
    LET e == U64Mul(input_amount, s.expected_rate)
    IN IF oc /\ e.overflow THEN Outcome("Panic", FALSE, 0, 0, led, TRUE)
       ELSE Outcome("Ok", TRUE, e.value \div RateScale, 0, led, e.overflow)

\* Dispatch with the arms of Raydium and Orca exchanged
DispatchCrossed(dex) ==
    CASE dex = "Jupiter" -> "execute_jupiter_swap"
      [] dex = "Raydium" -> "execute_orca_swap"
      [] dex = "Orca" -> "execute_raydium_swap"

\* lib.rs:104-108 match step.dex: the adapter each venue tag selects
Dispatch(dex) ==
    CASE dex = "Jupiter" -> "execute_jupiter_swap"
      [] dex = "Raydium" -> "execute_raydium_swap"
      [] dex = "Orca" -> "execute_orca_swap"

\* lib.rs:93 execute_single_swap: min_output, then the adapter of step.dex.
\* invoked tells whether an adapter was entered at all, adapter which one,
\* overflow whether the computation of min_output left the u64 range.
execute_single_swap(s, input_amount, slippage_bps, amt, led, oc, cpi) ==
    LET mo == MinOutput(input_amount, s.expected_rate, slippage_bps)
        adapter == Dispatch(s.dex)
    IN IF oc /\ mo.overflow
       THEN [invoked |-> FALSE, adapter |-> "None", min_output |-> 0,
             overflow |-> TRUE,
             out |-> Outcome("Panic", FALSE, 0, 0, led, TRUE)]
       ELSE [invoked |-> TRUE, adapter |-> adapter, min_output |-> mo.value,
             overflow |-> mo.overflow,
             out |-> CASE adapter = "execute_jupiter_swap" ->
                            execute_jupiter_swap(s, input_amount, mo.value, amt, led, oc, cpi)
                       [] adapter = "execute_raydium_swap" ->
                            execute_raydium_swap(s, input_amount, mo.value, led, oc)
                       [] adapter = "execute_orca_swap" ->
                            execute_orca_swap(s, input_amount, mo.value, led, oc)]

\* SafetyChecks with the upper length bound off by one
SafetyChecksLenOffByOne(len, min_bps) ==
    IF ~(len >= MinRouteLen) THEN "RouteTooShort"
    ELSE IF ~(len <= MaxRouteLen + 1) THEN "RouteTooLong"
    ELSE IF ~(min_bps > 0) THEN "InvalidMinProfit"
    ELSE "None"

\* SafetyChecks with min_profit_bps >= 0 for min_profit_bps > 0
SafetyChecksZeroProfit(len, min_bps) ==
    IF ~(len >= MinRouteLen) THEN "RouteTooShort"
    ELSE IF ~(len <= MaxRouteLen) THEN "RouteTooLong"
    ELSE IF ~(min_bps >= 0) THEN "InvalidMinProfit"
    ELSE "None"

\* lib.rs:30-32 the three require! of execute_arbitrage_route, in order
SafetyChecks(len, min_bps) ==
    IF ~(len >= MinRouteLen) THEN "RouteTooShort"
    ELSE IF ~(len <= MaxRouteLen) THEN "RouteTooLong"
    ELSE IF ~(min_bps > 0) THEN "InvalidMinProfit"
    ELSE "None"

\* RequireSuccess that leaves the instruction with Ok(()) on a failed step
RequireSuccessReturnsOk(success) == IF success THEN "None" ELSE "Ok"

\* RequireSuccess with the require! left out
RequireSuccessDropped(success) == "None"

\* RequireSuccess raising the slippage error kind for a failed step
RequireSuccessSlippageKind(success) ==
    IF success THEN "None" ELSE "SlippageExceeded"

\* lib.rs:56 require!(swap_result.success, ArbitrageError::SwapFailed)
RequireSuccess(success) == IF success THEN "None" ELSE "SwapFailed"

\* lib.rs:61 profit
Profit(final, start) == SaturatingSub(final, start)

\* ProfitBps scaled by 1000 (per mille) for 10000 (basis points)
ProfitBpsPerMille(p, start) ==
    LET m == U64Mul(p, RateScale)
    IN [overflow |-> m.overflow, value |-> m.value \div start]

\* lib.rs:62 profit_bps = (profit * 10000) / start_balance, for start > 0
ProfitBps(p, start) ==
    LET m == U64Mul(p, BpsScale)
    IN [overflow |-> m.overflow, value |-> m.value \div start]

\* ProfitGate with the comparison the wrong way round
ProfitGateFlipped(bps, min_bps) == IF bps <= min_bps THEN "None" ELSE "InsufficientProfit"

\* lib.rs:67 require!(profit_bps >= min_profit_bps as u64, ...)
ProfitGate(bps, min_bps) == IF bps >= min_bps THEN "None" ELSE "InsufficientProfit"

\* lib.rs:70-77 the ArbitrageExecuted event (steps is route.len() as u8)
ArbitrageExecuted(start, final, p, bps, len) ==
    [start_amount |-> start,
     final_amount |-> final,
     profit |-> p,
     profit_bps |-> bps,
     steps |-> len % U8]

\* ----------------------------------------------------------------- the state
Init ==
    /\ overflow_checks \in BOOLEAN
    /\ ledger \in Balances
    /\ entry_ledger = ledger
    /\ amount = ledger
    /\ op = "none"
    /\ pc = "idle"
    /\ route_len = 0
    /\ min_profit_bps = 0
    /\ max_slippage_bps = 0
    /\ start_balance = 0
    /\ current_amount = 0
    /\ step_index = 0
    /\ step = NoStep
    /\ swap_result = NoSwapResult
    /\ final_balance = 0
    /\ profit = 0
    /\ profit_bps = 0
    /\ result = "None"
    /\ events = <<>>
    /\ calls = 0
    /\ last_call = NoCall
    /\ balance_reads = 0
    /\ venues = {}
    /\ out_of_range = FALSE

\* the instruction returns res with the ledger at led: Ok(()) commits it, an
\* Err or a panic makes the runtime revert the transaction
Return(res, led) ==
    /\ result' = res
    /\ pc' = "done"
    /\ ledger' = IF res = "Ok" THEN led ELSE entry_ledger

\* a transaction with execute_arbitrage_route(ctx, route, min_profit_bps,
\* max_slippage_bps) is submitted; the accounts of ctx are deserialized.
\* Nothing but the ledger outlives a transaction and Init provides every
\* ledger, so one execute per behaviour covers every execute.
Call ==
    /\ pc = "idle"
    /\ \E n \in RouteLens, mp \in MinProfits, ms \in Slippages :
          /\ route_len' = n
          /\ min_profit_bps' = mp
          /\ max_slippage_bps' = ms
    /\ op' = "execute_arbitrage_route"
    /\ pc' = "checks"
    /\ entry_ledger' = ledger
    /\ amount' = ledger
    /\ start_balance' = 0
    /\ current_amount' = 0
    /\ step_index' = 0
    /\ step' = NoStep
    /\ swap_result' = NoSwapResult
    /\ final_balance' = 0
    /\ profit' = 0
    /\ profit_bps' = 0
    /\ result' = "None"
    /\ events' = <<>>
    /\ calls' = 0
    /\ last_call' = NoCall
    /\ balance_reads' = 0
    /\ venues' = {}
    /\ out_of_range' = FALSE
    /\ UNCHANGED <<overflow_checks, ledger>>

\* lib.rs:29-32  1. SAFETY CHECKS
Checks ==
    /\ pc = "checks"
    /\ LET err == SafetyChecks(route_len, min_profit_bps)
       IN IF err # "None"
          THEN Return(err, ledger)
          ELSE /\ pc' = "record"
               /\ UNCHANGED <<result, ledger>>
    /\ UNCHANGED <<overflow_checks, entry_ledger, amount, op, inputs, locals,
                   events, calls, last_call, balance_reads, venues,
                   out_of_range>>

\* lib.rs:34-39  2. RECORD STARTING BALANCE
RecordStart ==
    /\ pc = "record"
    /\ start_balance' = amount
    /\ current_amount' = amount
    /\ balance_reads' = balance_reads + 1
    /\ pc' = "loop"
    /\ UNCHANGED <<overflow_checks, ledger, entry_ledger, amount, op, inputs,
                   step_index, step, swap_result, final_balance, profit,
                   profit_bps, result, events, calls, last_call, venues,
                   out_of_range>>

\* lib.rs:41-57  one iteration of the loop over route: execute_single_swap on
\* the next step, current_amount, require!(swap_result.success)
LoopStep ==
    /\ pc = "loop"
    /\ \E s \in SwapStep :
       \E cpi \in (IF s.dex = "Jupiter" THEN CpiOutcomes ELSE {NoCpi}) :
       \E r \in {execute_single_swap(s, current_amount, max_slippage_bps,
                                     amount, ledger, overflow_checks, cpi)} :
          LET err == RequireSuccess(r.out.swap_result.success)
          IN /\ step' = s
             /\ venues' = venues \cup {s.dex}
             /\ out_of_range' = (out_of_range \/ r.overflow \/ r.out.overflow)
             /\ calls' = IF r.invoked THEN calls + 1 ELSE calls
             /\ last_call' = IF r.invoked
                              THEN [adapter |-> r.adapter,
                                    dex |-> s.dex,
                                    expected_rate |-> s.expected_rate,
                                    input_amount |-> current_amount,
                                    min_output |-> r.min_output,
                                    kind |-> r.out.kind,
                                    pre_ledger |-> ledger,
                                    post_ledger |-> r.out.ledger_after]
                              ELSE last_call
             /\ IF r.out.kind # "Ok"
                THEN /\ Return(r.out.kind, r.out.ledger_after)
                     /\ UNCHANGED <<swap_result, current_amount, step_index>>
                ELSE /\ swap_result' = r.out.swap_result
                     /\ current_amount' = r.out.swap_result.output_amount
                     /\ IF err # "None"
                        THEN /\ Return(err, r.out.ledger_after)
                             /\ UNCHANGED step_index
                        ELSE /\ ledger' = r.out.ledger_after
                             /\ step_index' = step_index + 1
                             /\ pc' = IF step_index + 1 = route_len
                                      THEN "final" ELSE "loop"
                             /\ UNCHANGED result
    /\ UNCHANGED <<overflow_checks, entry_ledger, amount, op, inputs,
                   start_balance, final_balance, profit, profit_bps, events,
                   balance_reads>>

\* ReadFinalBalance that also overwrites the baseline with the running amount
ReadFinalBalanceResetsStart ==
    /\ pc = "final"
    /\ final_balance' = amount
    /\ start_balance' = current_amount
    /\ balance_reads' = balance_reads + 1
    /\ pc' = "gate"
    /\ UNCHANGED <<overflow_checks, ledger, entry_ledger, amount, op, inputs,
                   current_amount, step_index, step, swap_result,
                   profit, profit_bps, result, events, calls, last_call,
                   venues, out_of_range>>

\* lib.rs:60  final_balance
ReadFinalBalance ==
    /\ pc = "final"
    /\ final_balance' = amount
    /\ balance_reads' = balance_reads + 1
    /\ pc' = "gate"
    /\ UNCHANGED <<overflow_checks, ledger, entry_ledger, amount, op, inputs,
                   start_balance, current_amount, step_index, step, swap_result,
                   profit, profit_bps, result, events, calls, last_call,
                   venues, out_of_range>>

\* lib.rs:61-80  4. PROFIT VALIDATION, 5. minimum profit, 6. the event, Ok(())
ProfitValidation ==
    /\ pc = "gate"
    /\ out_of_range' =
          (out_of_range \/
              (start_balance # 0 /\
               ProfitBps(Profit(final_balance, start_balance),
                         start_balance).overflow))
    /\ LET p == Profit(final_balance, start_balance)
       IN /\ profit' = p
          /\ IF start_balance = 0
             THEN /\ Return("Panic", ledger)
                  /\ UNCHANGED <<profit_bps, events>>
             ELSE LET b == ProfitBps(p, start_balance)
                      err == ProfitGate(b.value, min_profit_bps)
                  IN IF overflow_checks /\ b.overflow
                     THEN /\ Return("Panic", ledger)
                          /\ UNCHANGED <<profit_bps, events>>
                     ELSE /\ profit_bps' = b.value
                          /\ IF err # "None"
                             THEN /\ Return(err, ledger)
                                  /\ UNCHANGED events
                             ELSE /\ events' = Append(events,
                                        ArbitrageExecuted(start_balance,
                                            final_balance, p, b.value, route_len))
                                  /\ Return("Ok", ledger)
    /\ UNCHANGED <<overflow_checks, entry_ledger, amount, op, inputs,
                   start_balance, current_amount, step_index, step, swap_result,
                   final_balance, calls, last_call, balance_reads, venues>>

\* emergency_cancel as it would be if it emptied the token account
EmergencyCancelDrains ==
    /\ pc \in {"idle", "done"}
    /\ op' = "emergency_cancel"
    /\ entry_ledger' = ledger
    /\ Return("Ok", 0)
    /\ events' = <<>>
    /\ calls' = 0
    /\ last_call' = NoCall
    /\ balance_reads' = 0
    /\ venues' = {}
    /\ out_of_range' = FALSE
    /\ UNCHANGED <<overflow_checks, amount, inputs, locals>>

\* lib.rs:84-89  emergency_cancel: a transaction of its own, Ok(())
EmergencyCancel ==
    /\ pc \in {"idle", "done"}
    /\ op' = "emergency_cancel"
    /\ entry_ledger' = ledger
    /\ Return("Ok", ledger)
    /\ events' = <<>>
    /\ calls' = 0
    /\ last_call' = NoCall
    /\ balance_reads' = 0
    /\ venues' = {}
    /\ out_of_range' = FALSE
    /\ UNCHANGED <<overflow_checks, amount, inputs, locals>>

Next ==
    \/ Call
    \/ Checks
    \/ RecordStart
    \/ LoopStep
    \/ ReadFinalBalance
    \/ ProfitValidation
    \/ EmergencyCancel

Spec == Init /\ [][Next]_vars

\* ------------------------------------------------------------------- claims
\* lib.rs:261-275 the kinds of ArbitrageError
ArbitrageError == {"RouteTooShort", "RouteTooLong", "InvalidMinProfit",
                   "SwapFailed", "InsufficientProfit", "SlippageExceeded"}

Executing == op = "execute_arbitrage_route"
Finished == Executing /\ pc = "done"
\* the instruction went as far as the profit validation
GateReached == Finished /\ balance_reads = 2
\* ... and computed profit_bps there
GateEvaluated == GateReached /\ result # "Panic"
\* the last adapter invoked raised an error or reported success = false
StepFailed ==
    /\ Executing
    /\ calls > 0
    /\ \/ last_call.kind = "ProgramError"
       \/ last_call.kind = "Ok" /\ ~swap_result.success
ValidLength == route_len \in MinRouteLen..MaxRouteLen
LengthError == IF route_len < MinRouteLen THEN "RouteTooShort" ELSE "RouteTooLong"

\* C1: execute_arbitrage_route never returns Ok when the profit_bps it computed
\* is below min_profit_bps; whenever it computed such a profit_bps it returns
\* InsufficientProfit.
C1_MonotonicGating ==
    /\ (Finished /\ result = "Ok") =>
           (balance_reads = 2 /\ profit_bps >= min_profit_bps)
    /\ (GateEvaluated /\ profit_bps < min_profit_bps) =>
           result = "InsufficientProfit"

C1_Witness ==
    /\ GateEvaluated
    /\ profit_bps < min_profit_bps
    /\ result = "InsufficientProfit"

\* C2: when a step fails (the CPI errors or the adapter reports success = false),
\* and in every execution that does not return Ok, the ledger balance after the
\* instruction has returned is the balance at its entry.
C2_Atomicity ==
    (Finished /\ (StepFailed \/ result # "Ok")) => ledger = entry_ledger

\* a later step failed after an earlier step's CPI had moved the ledger
C2_Witness ==
    /\ Finished
    /\ StepFailed
    /\ result = "SwapFailed"
    /\ step_index >= 1
    /\ last_call.pre_ledger # entry_ledger
    /\ ledger = entry_ledger

\* C3: a route whose length is outside [3, 6] ends the instruction in the safety
\* checks with RouteTooShort or RouteTooLong, before the balance is read and
\* before any adapter is invoked.
C3_LengthErrorFirst ==
    (Executing /\ pc # "checks" /\ ~ValidLength) =>
        /\ pc = "done"
        /\ result = LengthError
        /\ balance_reads = 0
        /\ calls = 0

C3_Witness ==
    /\ Finished
    /\ route_len > MaxRouteLen
    /\ result = "RouteTooLong"
    /\ balance_reads = 0
    /\ calls = 0

\* C4 as stated: every request with min_profit_bps = 0 fails with
\* InvalidMinProfit and invokes no adapter.
C4_Original ==
    (Executing /\ pc # "checks" /\ min_profit_bps = 0) =>
        /\ pc = "done"
        /\ result = "InvalidMinProfit"
        /\ calls = 0

\* C4 as amended: every request with min_profit_bps = 0 fails in the safety
\* checks and invokes no adapter; the error is InvalidMinProfit when the route
\* length is in [3, 6] and the length error, which is checked first, otherwise.
C4_ZeroMinProfitRejected ==
    (Executing /\ pc # "checks" /\ min_profit_bps = 0) =>
        /\ pc = "done"
        /\ result = (IF ValidLength THEN "InvalidMinProfit" ELSE LengthError)
        /\ balance_reads = 0
        /\ calls = 0

C4_Witness ==
    /\ Finished
    /\ min_profit_bps = 0
    /\ ValidLength
    /\ result = "InvalidMinProfit"
    /\ calls = 0

\* C5: an instruction that reaches the profit validation with start_balance = 0
\* fails with the dedicated error DivisionByZeroBalance (it does not panic).
C5_DivisionByZeroBalance ==
    (GateReached /\ start_balance = 0) => result = "DivisionByZeroBalance"

\* C6: every finished execute_arbitrage_route has returned Ok or one tagged
\* ArbitrageError; none ends in a propagated CPI error or a panic.
C6_TaggedOutcome ==
    Finished => result \in ({"Ok"} \cup ArbitrageError)

C8_SwapFailedAborts ==
    (Executing /\ calls > 0 /\ last_call.kind = "Ok" /\ ~swap_result.success) =>
        /\ pc = "done"
        /\ result = "SwapFailed"
        /\ calls = step_index + 1
        /\ balance_reads = 1
        /\ profit_bps = 0
        /\ events = <<>>

\* a step that is not the last of its route failed
C8_Witness ==
    /\ Finished
    /\ result = "SwapFailed"
    /\ last_call.kind = "Ok"
    /\ ~swap_result.success
    /\ step_index + 1 < route_len
    /\ calls = step_index + 1

\* C9: the final_balance the profit validation uses is the balance the ledger
\* holds after the last step.
C9_FreshFinalBalance ==
    (Executing /\ pc = "gate") => final_balance = ledger

\* mo is floor(input * rate * (10000 - slippage) / 10000000) over the integers:
\* 0 when a factor is 0; no word when the product is negative (slippage above
\* 10000); otherwise the product has to fit the word, a wrapped product being
\* a multiple of Word, which is more than 10000000, below the exact one
IsExactMinOutput(input, rate, slippage, mo) ==
    IF input = 0 \/ rate = 0 \/ slippage = BpsScale THEN mo = 0
    ELSE /\ slippage < BpsScale
         /\ ~MulOverflows(input, rate)
         /\ ~MulOverflows(input * rate, BpsScale - slippage)
         /\ mo = (input * rate * (BpsScale - slippage)) \div MinOutputDivisor

\* C10: the min_output handed to every adapter is
\* floor(current_amount * expected_rate * (10000 - max_slippage_bps) / 10000000),
\* and an output_amount equal to min_output is reported as success.
C10_MinOutputFormula ==
    (Executing /\ calls > 0) =>
        /\ IsExactMinOutput(last_call.input_amount, last_call.expected_rate,
                            max_slippage_bps, last_call.min_output)
        /\ (last_call.kind = "Ok"
              /\ swap_result.output_amount = last_call.min_output)
               => swap_result.success

\* C11: whenever an adapter returns a SwapResult with success = true its
\* output_amount is at least the min_output it was given, and whenever it
\* returns success = false it has moved no asset: the ledger balance is the one
\* before the call.
C11_AdapterContract ==
    (Executing /\ calls > 0 /\ last_call.kind = "Ok") =>
        /\ swap_result.success =>
               swap_result.output_amount >= last_call.min_output
        /\ ~swap_result.success =>
               last_call.post_ledger = last_call.pre_ledger

\* the adapter that serves each venue
AdapterOf(dex) ==
    IF dex = "Jupiter" THEN "execute_jupiter_swap"
    ELSE IF dex = "Raydium" THEN "execute_raydium_swap"
    ELSE "execute_orca_swap"

\* C12: adapters are invoked one per step, in route order, each the adapter of
\* its step's venue; the first is given start_balance and every later one the
\* output_amount the step before it reported, and it is invoked only after
\* that step reported success.
C12_SequentialChaining ==
    [][(Executing /\ calls' = calls + 1) =>
          /\ pc = "loop"
          /\ calls = step_index
          /\ last_call'.dex = step'.dex
          /\ last_call'.adapter = AdapterOf(step'.dex)
          /\ last_call'.input_amount =
                 (IF step_index = 0 THEN start_balance
                  ELSE swap_result.output_amount)
          /\ (step_index > 0 => swap_result.success)]_vars

\* a later step was handed an amount an earlier step had changed
C12_Witness ==
    /\ Executing
    /\ calls >= 2
    /\ calls = step_index
    /\ last_call.dex = "Orca"
    /\ last_call.adapter = "execute_orca_swap"
    /\ last_call.input_amount # start_balance
    /\ last_call.kind = "Ok"

\* C13: user_token_account.amount is read into start_balance once, after the
\* safety checks have passed and before any adapter is invoked; start_balance
\* does not change afterwards and is the baseline of profit and profit_bps.
C13_StartBalanceOnce ==
    [][Executing' =>
          /\ (balance_reads = 0 /\ balance_reads' > 0) =>
                 /\ balance_reads' = 1
                 /\ pc = "record"
                 /\ ValidLength
                 /\ min_profit_bps > 0
                 /\ calls = 0
                 /\ calls' = 0
                 /\ start_balance' = amount
          /\ (start_balance' # start_balance) =>
                 (balance_reads = 0 /\ balance_reads' = 1)
          /\ (balance_reads > 0 /\ balance_reads' > 0) =>
                 start_balance' = start_balance
          /\ calls' > 0 => balance_reads' >= 1
          /\ (pc' = "done" /\ balance_reads' = 2 /\ result' # "Panic") =>
                 /\ profit' = SaturatingSub(final_balance', start_balance')
                 /\ profit_bps' = (profit' * 10000) \div start_balance']_vars

\* the steps have run and changed the running amount; the baseline is as read
C13_Witness ==
    /\ Executing
    /\ pc = "loop"
    /\ balance_reads = 1
    /\ calls >= 1
    /\ start_balance = SmallBalance
    /\ current_amount # start_balance

\* C14: an instruction emits at most one ArbitrageExecuted event; an event has
\* been emitted only if the instruction returned Ok with profit_bps at or above
\* min_profit_bps, never when it ended in an error; and its fields are
\* start_balance, final_balance, profit, profit_bps and the route length.
C14_EventOnlyOnSuccess ==
    /\ Len(events) <= 1
    /\ events # <<>> =>
          /\ Finished
          /\ result = "Ok"
          /\ balance_reads = 2
          /\ profit_bps >= min_profit_bps
          /\ events[1] = [start_amount |-> start_balance,
                          final_amount |-> final_balance,
                          profit |-> profit,
                          profit_bps |-> profit_bps,
                          steps |-> route_len]
    /\ (Finished /\ result = "Ok") => Len(events) = 1
    /\ (pc = "done" /\ result # "Ok") => events = <<>>
    /\ ArbitrageExecuted(100000, 101500, 1500, 150, 3) =
           [start_amount |-> 100000, final_amount |-> 101500, profit |-> 1500,
            profit_bps |-> 150, steps |-> 3]

\* every step ran, the profit gate refused, nothing was emitted
C14_Witness ==
    /\ GateEvaluated
    /\ calls = route_len
    /\ result = "InsufficientProfit"
    /\ events = <<>>

\* C16: emergency_cancel can be called whenever no instruction is running and
\* is a no-op: it returns Ok, invokes no adapter, emits no event and leaves
\* the token balance, the request and every local of the program unchanged.
C16_CancelIsNoOp ==
    /\ [](pc \in {"idle", "done"} => ENABLED EmergencyCancel)
    /\ [][op' = "emergency_cancel" =>
             /\ pc \in {"idle", "done"}
             /\ pc' = "done"
             /\ result' = "Ok"
             /\ ledger' = ledger
             /\ events' = <<>>
             /\ calls' = 0
             /\ last_call' = NoCall
             /\ UNCHANGED <<amount, inputs, locals>>]_vars

\* a cancel sent after an execute_arbitrage_route that went through its steps
C16_Witness ==
    /\ op = "emergency_cancel"
    /\ pc = "done"
    /\ result = "Ok"
    /\ ledger = SmallBalance
    /\ ValidLength
    /\ step_index = route_len

\* C17: no execution of execute_arbitrage_route ends with SlippageExceeded, not
\* even one in which a step reported success with a realized slippage above
\* max_slippage_bps; a finished execution ends with Ok, one of the other five
\* error kinds, the error of the invoked program, or a panic.
C17_SlippageExceededNeverRaised ==
    /\ result # "SlippageExceeded"
    /\ Finished =>
          result \in ((ArbitrageError \ {"SlippageExceeded"})
                         \cup {"Ok", "ProgramError", "Panic"})

\* the last step reported success with more slippage than the request allows,
\* and the instruction ended in another error kind
C17_Witness ==
    /\ Finished
    /\ calls = route_len
    /\ last_call.kind = "Ok"
    /\ swap_result.success
    /\ swap_result.slippage_bps > max_slippage_bps
    /\ result = "InsufficientProfit"

\* C18: whenever execute_arbitrage_route has returned Ok, final_balance is above
\* start_balance (profit > 0), the route length is in [3, 6], min_profit_bps is
\* above 0 and every step of the route was run and reported success (the step
\* counter only advances past a step that reported success); an execution
\* whose final_balance is not above start_balance never returns Ok.
C18_SuccessImpliesGain ==
    /\ []((Finished /\ result = "Ok") =>
             /\ balance_reads = 2
             /\ final_balance > start_balance
             /\ profit > 0
             /\ ValidLength
             /\ min_profit_bps > 0
             /\ step_index = route_len
             /\ calls = route_len
             /\ last_call.kind = "Ok"
             /\ swap_result.success)
    /\ []((GateReached /\ final_balance <= start_balance) => result # "Ok")
    /\ [][(Executing /\ step_index' = step_index + 1) =>
             /\ calls' = calls + 1
             /\ last_call'.kind = "Ok"
             /\ swap_result'.success]_vars

\* every step of a longest route succeeded, the balance did not grow, and the
\* instruction did not return Ok
C18_Witness ==
    /\ GateEvaluated
    /\ route_len = MaxRouteLen
    /\ step_index = route_len
    /\ swap_result.success
    /\ start_balance = LargeBalance
    /\ final_balance <= start_balance
    /\ min_profit_bps = MaxMinProfitBps
    /\ result = "InsufficientProfit"

\* C19: the Raydium and Orca adapters always return success = true with
\* output_amount = floor(input_amount * expected_rate / 1000) and leave the
\* token balance alone; and a validated execution whose route steps are all
\* Raydium or Orca, started with start_balance > 0, comes to the profit
\* validation with final_balance = start_balance and ends in
\* InsufficientProfit.
C19_SimulatedVenuesNeverProfit ==
    /\ (Executing /\ calls > 0
          /\ last_call.adapter \in {"execute_raydium_swap", "execute_orca_swap"}) =>
          /\ last_call.kind = "Ok"
          /\ swap_result.success
          /\ swap_result.output_amount =
                (last_call.input_amount * last_call.expected_rate) \div RateScale
          /\ last_call.post_ledger = last_call.pre_ledger
    /\ (Finished /\ ValidLength /\ min_profit_bps > 0 /\ start_balance > 0
          /\ venues # {} /\ venues \subseteq {"Raydium", "Orca"}) =>
          /\ balance_reads = 2
          /\ final_balance = start_balance
          /\ result = "InsufficientProfit"

\* C20: in an execution that passed the safety checks every u64 operation
\* stays in range: 10000 - max_slippage_bps does not underflow, and the
\* products of lib.rs:102, 148, 163, 179, 197 and 62 do not overflow.
C20_ArithmeticInRange ==
    (Executing /\ ValidLength /\ min_profit_bps > 0) => ~out_of_range

=============================================================================
